---- MODULE Spec2Model ----
(***************************************************************************)
(* Integer reciprocal square root for RV32I (3-pipeline/csrc/rsqrt_fast.c) *)
(* and the software arithmetic it is built on: clz, udiv, umod, umul,      *)
(* __mulsi3, mul32x32, newton_step_q16_inline and rsqrt.                   *)
(*                                                                         *)
(* A C value of type uint32_t (and unsigned long, which is 32 bits wide on *)
(* the RV32 target) is a natural number below 2^32.  TLC's integers stop   *)
(* at 2^31 - 1, so a natural number is written here as the sequence of its *)
(* base-256 digits, least significant first, without leading zeros: 0 is   *)
(* << >>, 65536 is <<0, 0, 1>>, 0xFFFFFFFF is <<255, 255, 255, 255>>.      *)
(* Numbers of any size are exact in this form; a C operation is the exact  *)
(* operation followed by the truncation to 32 bits that the C type does.   *)
(***************************************************************************)
EXTENDS Integers, Sequences, FiniteSets, TLC

(***************************************************************************)
(* Exact arithmetic on natural numbers (digit sequences).                  *)
(***************************************************************************)
Digit(n, i) == IF 1 <= i /\ i <= Len(n) THEN n[i] ELSE 0

Max(p, q) == IF p >= q THEN p ELSE q

Min(p, q) == IF p <= q THEN p ELSE q

RECURSIVE Norm(_)
Norm(s) ==
  IF s = << >> THEN s
  ELSE IF s[Len(s)] = 0 THEN Norm(SubSeq(s, 1, Len(s) - 1))
  ELSE s

\* The digit sequence of a TLC integer k >= 0.
RECURSIVE N(_)
N(k) == IF k = 0 THEN << >> ELSE <<k % 256>> \o N(k \div 256)

\* The TLC integer of a number known to be below 2^31.
RECURSIVE IntFrom(_, _)
IntFrom(n, i) == IF i > Len(n) THEN 0 ELSE n[i] + 256 * IntFrom(n, i + 1)

ToInt(n) == IntFrom(n, 1)

RECURSIVE AddFrom(_, _, _, _)
AddFrom(a, b, i, c) ==
  IF i > Len(a) /\ i > Len(b) THEN (IF c = 0 THEN << >> ELSE <<c>>)
  ELSE LET s == Digit(a, i) + Digit(b, i) + c
       IN  <<s % 256>> \o AddFrom(a, b, i + 1, s \div 256)

NAdd(a, b) == AddFrom(a, b, 1, 0)

RECURSIVE LessFrom(_, _, _)
LessFrom(a, b, i) ==
  IF i = 0 THEN FALSE
  ELSE IF Digit(a, i) # Digit(b, i) THEN Digit(a, i) < Digit(b, i)
  ELSE LessFrom(a, b, i - 1)

NLess(a, b) == LessFrom(a, b, Max(Len(a), Len(b)))

NLeq(a, b) == ~NLess(b, a)

\* a - b for a >= b.
RECURSIVE SubFrom(_, _, _, _)
SubFrom(a, b, i, br) ==
  IF i > Len(a) THEN << >>
  ELSE LET d == Digit(a, i) - Digit(b, i) - br
       IN  <<IF d < 0 THEN d + 256 ELSE d>>
             \o SubFrom(a, b, i + 1, IF d < 0 THEN 1 ELSE 0)

NSub(a, b) == Norm(SubFrom(a, b, 1, 0))

\* a * d for one digit d.
RECURSIVE MulDigitFrom(_, _, _, _)
MulDigitFrom(a, d, i, c) ==
  IF i > Len(a) THEN (IF c = 0 THEN << >> ELSE <<c>>)
  ELSE LET s == a[i] * d + c
       IN  <<s % 256>> \o MulDigitFrom(a, d, i + 1, s \div 256)

RECURSIVE MulFrom(_, _, _)
MulFrom(a, b, j) ==
  IF j > Len(b) THEN << >>
  ELSE NAdd(MulDigitFrom(a, b[j], 1, 0), <<0>> \o MulFrom(a, b, j + 1))

NMul(a, b) == Norm(MulFrom(a, b, 1))

\* 2^k as a number.
Pow2(k) == [i \in 1..(k \div 8) |-> 0] \o <<2 ^ (k % 8)>>

\* floor(a / 2^k)
NShr(a, k) ==
  LET q == k \div 8
      r == k % 8
      s == SubSeq(a, q + 1, Len(a))
  IN  Norm([i \in 1..Len(s) |->
              (s[i] \div (2 ^ r)) + (Digit(s, i + 1) % (2 ^ r)) * (2 ^ (8 - r))])

\* a * 2^k
NShl(a, k) ==
  LET q == k \div 8
      r == k % 8
  IN  Norm([i \in 1..q |-> 0]
           \o [i \in 1..(Len(a) + 1) |->
                 ((Digit(a, i) * (2 ^ r)) % 256)
                 + (Digit(a, i - 1) \div (2 ^ (8 - r)))])

\* a mod 2^k, for k a multiple of 8.
NLow(a, k) == Norm(SubSeq(a, 1, Min(Len(a), k \div 8)))

RECURSIVE OrBits(_, _)
OrBits(p, q) ==
  IF p = 0 THEN q
  ELSE IF q = 0 THEN p
  ELSE Max(p % 2, q % 2) + 2 * OrBits(p \div 2, q \div 2)

NOr(a, b) == [i \in 1..Max(Len(a), Len(b)) |-> OrBits(Digit(a, i), Digit(b, i))]

(***************************************************************************)
(* The C operators on uint32_t: the exact result truncated to 32 bits.     *)
(***************************************************************************)
U32(n) == NLow(n, 32)

Add32(a, b) == U32(NAdd(a, b))

Sub32(a, b) == IF NLeq(b, a) THEN NSub(a, b) ELSE NSub(NAdd(a, Pow2(32)), b)

Mul32(a, b) == U32(NMul(a, b))

Shl32(a, c) == U32(NShl(a, c))

Shr32(a, c) == NShr(a, c)

Or32(a, b) == NOr(a, b)

\* A C comparison or logical value used as an integer: 1 or 0.
B2I(p) == IF p THEN 1 ELSE 0

UINT32_MAX == <<255, 255, 255, 255>>

\* clz without its last statement, r += x == 0.
clz_no_zero_case(x0) ==
  LET c1 == B2I(NLess(x0, N(65536))) * 16
      x1 == Shl32(x0, c1)
      c2 == B2I(NLess(x1, N(16777216))) * 8
      x2 == Shl32(x1, c2)
      c3 == B2I(NLess(x2, N(268435456))) * 4
      x3 == Shl32(x2, c3)
      c4 == B2I(NLess(x3, N(1073741824))) * 2
      x4 == Shl32(x3, c4)
      c5 == B2I(NLess(x4, Pow2(31)))
  IN  N(c1 + c2 + c3 + c4 + c5)

(***************************************************************************)
(* clz (lines 41-61): binary search for the highest set bit.               *)
(***************************************************************************)
clz(x0) ==
  LET c1 == B2I(NLess(x0, N(65536))) * 16
      x1 == Shl32(x0, c1)
      c2 == B2I(NLess(x1, N(16777216))) * 8
      x2 == Shl32(x1, c2)
      c3 == B2I(NLess(x2, N(268435456))) * 4
      x3 == Shl32(x2, c3)
      c4 == B2I(NLess(x3, N(1073741824))) * 2
      x4 == Shl32(x3, c4)
      c5 == B2I(NLess(x4, Pow2(31)))
      x5 == Shl32(x4, c5)
      r  == c1 + c2 + c3 + c4 + c5 + B2I(x5 = << >>)
  IN  N(r)

\* udiv's loop body comparing with > where the code has >=.
udiv_body_strict(l, dividend, divisor) ==
  LET r1 == Shl32(l.remainder, 1)
      r2 == Or32(r1, N(Digit(NShr(dividend, l.i), 1) % 2))
  IN  IF NLess(divisor, r2)
      THEN [remainder |-> Sub32(r2, divisor),
            quotient  |-> Or32(l.quotient, Shl32(N(1), l.i)),
            i         |-> l.i - 1]
      ELSE [remainder |-> r2, quotient |-> l.quotient, i |-> l.i - 1]

(***************************************************************************)
(* udiv and umod (lines 64-102): restoring long division, one quotient bit *)
(* per iteration, i = 31 down to 0.  The locals are a record.              *)
(***************************************************************************)
udiv_body(l, dividend, divisor) ==
  LET r1 == Shl32(l.remainder, 1)
      r2 == Or32(r1, N(Digit(NShr(dividend, l.i), 1) % 2))
  IN  IF NLeq(divisor, r2)
      THEN [remainder |-> Sub32(r2, divisor),
            quotient  |-> Or32(l.quotient, Shl32(N(1), l.i)),
            i         |-> l.i - 1]
      ELSE [remainder |-> r2, quotient |-> l.quotient, i |-> l.i - 1]

umod_body(l, dividend, divisor) ==
  LET r1 == Shl32(l.remainder, 1)
      r2 == Or32(r1, N(Digit(NShr(dividend, l.i), 1) % 2))
  IN  IF NLeq(divisor, r2)
      THEN [remainder |-> Sub32(r2, divisor), i |-> l.i - 1]
      ELSE [remainder |-> r2, i |-> l.i - 1]

\* umul's loop body shifting a before the conditional add.
umul_body_shift_first(l) ==
  [a      |-> Shl32(l.a, 1),
   b      |-> Shr32(l.b, 1),
   result |-> IF Digit(l.b, 1) % 2 = 1 THEN Add32(l.result, Shl32(l.a, 1))
              ELSE l.result,
   n      |-> l.n + 1]

(***************************************************************************)
(* umul (lines 105-115): shift-and-add multiplication.  n counts the       *)
(* iterations of the while loop.                                           *)
(***************************************************************************)
umul_body(l) ==
  [a      |-> Shl32(l.a, 1),
   b      |-> Shr32(l.b, 1),
   result |-> IF Digit(l.b, 1) % 2 = 1 THEN Add32(l.result, l.a) ELSE l.result,
   n      |-> l.n + 1]

RECURSIVE umul_run(_)
umul_run(l) == IF l.b = << >> THEN l.result ELSE umul_run(umul_body(l))

umul(a, b) == umul_run([a |-> a, b |-> b, result |-> << >>, n |-> 0])

(***************************************************************************)
(* rsqrt_table (lines 178-181); entry e is table[e + 1] here.              *)
(***************************************************************************)
rsqrt_table ==
  <<65536, 46341, 32768, 23170, 16384, 11585, 8192, 5793, 4096, 2896, 2048,
    1448,  1024,  724,   512,   362,   256,   181,  128,  90,   64,   45,
    32,    23,    16,    11,    8,     6,     4,    3,    2,    1>>

\* mul32x32 without the carry of the middle column into the high word.
mul32x32_carry_dropped(a, b) ==
  LET a_lo == NLow(a, 16)
      a_hi == Shr32(a, 16)
      b_lo == NLow(b, 16)
      b_hi == Shr32(b, 16)
      p0   == Mul32(a_lo, b_lo)
      p1   == Mul32(a_lo, b_hi)
      p2   == Mul32(a_hi, b_lo)
      p3   == Mul32(a_hi, b_hi)
      mid  == Add32(Add32(Shr32(p0, 16), NLow(p1, 16)), NLow(p2, 16))
      lo_res == Or32(NLow(p0, 16), Shl32(mid, 16))
      hi_res == Add32(Add32(p3, Shr32(p1, 16)), Shr32(p2, 16))
  IN  [hi |-> hi_res, lo |-> lo_res]

(***************************************************************************)
(* mul32x32 (lines 185-203): the 64-bit product from four 16x16 products.  *)
(***************************************************************************)
mul32x32(a, b) ==
  LET a_lo == NLow(a, 16)
      a_hi == Shr32(a, 16)
      b_lo == NLow(b, 16)
      b_hi == Shr32(b, 16)
      p0   == Mul32(a_lo, b_lo)
      p1   == Mul32(a_lo, b_hi)
      p2   == Mul32(a_hi, b_lo)
      p3   == Mul32(a_hi, b_hi)
      mid  == Add32(Add32(Shr32(p0, 16), NLow(p1, 16)), NLow(p2, 16))
      lo_res == Or32(NLow(p0, 16), Shl32(mid, 16))
      hi_res == Add32(Add32(Add32(p3, Shr32(p1, 16)), Shr32(p2, 16)),
                      Shr32(mid, 16))
  IN  [hi |-> hi_res, lo |-> lo_res]

(***************************************************************************)
(* newton_step_q16_inline (lines 205-239), statement by statement.  m is   *)
(* the pair [hi, lo] that the call of mul32x32 before the statement wrote. *)
(***************************************************************************)
\* line 216
newton_termA(m) == Shl32(m.lo, 16)

\* termB built from the low word alone.
newton_termB_low_only(m) == Shr32(m.lo, 16)

\* line 225
newton_termB(m) == Or32(Shl32(m.hi, 16), Shr32(m.lo, 16))

\* line 227
newton_xy2(termA, termB) == Add32(termA, termB)

\* line 231
newton_term(xy2) == Sub32(N(3 * 65536), xy2)

\* The closing shift by 16 where the code shifts by 17.
newton_result_shift_16(m) ==
  LET lo_plus == Add32(m.lo, N(65536))
      hi_plus == Add32(m.hi, N(B2I(NLess(lo_plus, m.lo))))
  IN  Or32(Shl32(hi_plus, 16), Shr32(lo_plus, 16))

\* lines 236-238
newton_result(m) ==
  LET lo_plus == Add32(m.lo, N(65536))
      hi_plus == Add32(m.hi, N(B2I(NLess(lo_plus, m.lo))))
  IN  Or32(Shl32(hi_plus, 15), Shr32(lo_plus, 17))

(***************************************************************************)
(* The statements of rsqrt (lines 266-276).                                *)
(***************************************************************************)
rsqrt_exp(x) == Sub32(N(31), clz(x))

rsqrt_y_base(exp) == N(rsqrt_table[ToInt(exp) + 1])

\* y_next read from the entry of y_base.
rsqrt_y_next_same_entry(exp) == N(rsqrt_table[ToInt(exp) + 1])

rsqrt_y_next(exp) ==
  IF NLess(exp, N(31)) THEN N(rsqrt_table[ToInt(exp) + 2]) ELSE N(1)

rsqrt_fraction(x, exp) ==
  LET e == ToInt(exp)
  IN  IF e >= 16 THEN Shr32(Sub32(x, Shl32(N(1), e)), e - 16)
      ELSE Shl32(Sub32(x, Shl32(N(1), e)), 16 - e)

\* The seed without the interpolation term.
rsqrt_interp_none(y_base, y_next, fraction) == y_base

rsqrt_interp(y_base, y_next, fraction) ==
  Sub32(y_base, Shr32(umul(Sub32(y_base, y_next), fraction), 16))

(***************************************************************************)
(* Inputs.  Word(h, l) is the 32-bit value with upper half h, lower half l.*)
(***************************************************************************)
Word(h, l) == NAdd(NShl(N(h), 16), N(l))

\* RSQRT_INPUTS (lines 241-253)
RSQRT_INPUTS ==
  <<N(0), N(1), N(2), N(3), N(4), N(5), N(6), N(8), N(9), N(10),
    N(12), N(15), N(16), N(20), N(25), N(50), N(100), N(128), N(200), N(256),
    N(300), N(400), N(500), N(768), N(1000), N(1500), N(2000), N(3000),
    N(4096), N(5000),
    N(8192), N(10000), N(12000), N(14000), N(15000), N(16000), N(16383),
    N(16384), N(10000), N(12000),
    N(32768), N(65536), N(131072), N(262144), N(524288),
    N(1048576), N(2097152), N(4194304), N(2147483647), UINT32_MAX>>

SampleInputs == {RSQRT_INPUTS[k] : k \in 1..Len(RSQRT_INPUTS)}

\* Further rsqrt inputs: neighbours inside one exponent bucket, bucket
\* boundaries 2^e - 1 and 2^e, and the largest input that is no sentinel.
ExtraInputList ==
  <<N(5352), N(5353), Word(65535, 65534), Pow2(31), N(65535), N(7),
    N(9699), N(9700), N(45442), N(45443), N(16777215), N(16777216)>>

NumExtraInputs == 6

RsqrtInputs ==
  SampleInputs
    \cup {ExtraInputList[k] : k \in 1..Min(NumExtraInputs, Len(ExtraInputList))}

\* Operands of mul32x32, umul and __mulsi3.
OperandList ==
  <<N(0), N(1), UINT32_MAX, Pow2(31), N(65535), N(65536), Word(65535, 0),
    Word(57005, 48879), N(305419896), N(3), N(2147483647), N(65537),
    Word(32768, 65535)>>

NumOperands == 8

Operands == {OperandList[k] : k \in 1..Min(NumOperands, Len(OperandList))}

ClzInputs ==
  Operands \cup {Pow2(k) : k \in 0..31}
           \cup {NSub(Pow2(k), N(1)) : k \in 0..31}
           \cup {NAdd(Pow2(k), N(1)) : k \in 1..31}

DividendList ==
  <<N(0), N(1), UINT32_MAX, Pow2(31), N(2147483647), Word(65535, 65534),
    N(1000000007), Word(32768, 1), N(10), Word(49152, 0), N(65536)>>

NumDividends == 8

Dividends == {DividendList[k] : k \in 1..Min(NumDividends, Len(DividendList))}

DivisorList ==
  <<N(0), N(1), N(10), UINT32_MAX, Pow2(31), Word(32768, 1), N(3),
    N(2147483647), N(65536), Word(49152, 0), N(65535), N(7)>>

NumDivisors == 9

Divisors == {DivisorList[k] : k \in 1..Min(NumDivisors, Len(DivisorList))}

(***************************************************************************)
(* The state: one call at a time (the program is single-threaded).         *)
(*   pc   where the running call stands: "idle" (between calls), "umul",   *)
(*        "udiv", "umod" (at the head of the loop), "rsqrt_lookup",        *)
(*        "rsqrt_interp" (before that statement of rsqrt), "newton_y2",    *)
(*        "newton_termA", "newton_termB", "newton_result" (before that     *)
(*        statement of newton_step_q16_inline), "done" (returned);         *)
(*   fn   the function called; arg its arguments; loc its locals;          *)
(*   ret  the value returned;                                              *)
(*   lastMod    the umod call that came right before a udiv call of the    *)
(*              same arguments (as in print_dec);                          *)
(*   lastRsqrt  the previous rsqrt call that returned.                     *)
(***************************************************************************)
VARIABLES pc, fn, arg, loc, ret, lastMod, lastRsqrt

vars == <<pc, fn, arg, loc, ret, lastMod, lastRsqrt>>

NoMod == [valid |-> FALSE, dividend |-> << >>, divisor |-> << >>, r |-> << >>]

NoRsqrt == [valid |-> FALSE, x |-> << >>, y |-> << >>]

Init ==
  /\ pc = "idle"
  /\ fn = "none"
  /\ arg = << >>
  /\ loc = << >>
  /\ ret = << >>
  /\ lastMod = NoMod
  /\ lastRsqrt = NoRsqrt

Call_clz(x) ==
  /\ pc = "idle"
  /\ pc' = "done"
  /\ fn' = "clz"
  /\ arg' = <<x>>
  /\ loc' = << >>
  /\ ret' = clz(x)
  /\ lastMod' = NoMod
  /\ UNCHANGED lastRsqrt

Call_mul32x32(a, b) ==
  /\ pc = "idle"
  /\ pc' = "done"
  /\ fn' = "mul32x32"
  /\ arg' = <<a, b>>
  /\ loc' = << >>
  /\ ret' = mul32x32(a, b)
  /\ lastMod' = NoMod
  /\ UNCHANGED lastRsqrt

Call_umul(a, b) ==
  /\ pc = "idle"
  /\ pc' = "umul"
  /\ fn' = "umul"
  /\ arg' = <<a, b>>
  /\ loc' = [a |-> a, b |-> b, result |-> << >>, n |-> 0]
  /\ ret' = << >>
  /\ lastMod' = NoMod
  /\ UNCHANGED lastRsqrt

\* __mulsi3 (lines 118-121) only calls umul.
Call_mulsi3(a, b) ==
  /\ pc = "idle"
  /\ pc' = "umul"
  /\ fn' = "__mulsi3"
  /\ arg' = <<a, b>>
  /\ loc' = [a |-> a, b |-> b, result |-> << >>, n |-> 0]
  /\ ret' = << >>
  /\ lastMod' = NoMod
  /\ UNCHANGED lastRsqrt

umul_iter ==
  /\ pc = "umul"
  /\ loc.b # << >>
  /\ loc' = umul_body(loc)
  /\ UNCHANGED <<pc, fn, arg, ret, lastMod, lastRsqrt>>

umul_return ==
  /\ pc = "umul"
  /\ loc.b = << >>
  /\ pc' = "done"
  /\ ret' = loc.result
  /\ UNCHANGED <<fn, arg, loc, lastMod, lastRsqrt>>

\* udiv without the test of the divisor.
Call_udiv_unguarded(dividend, divisor) ==
  /\ pc = "idle"
  /\ fn' = "udiv"
  /\ arg' = <<dividend, divisor>>
  /\ pc' = "udiv"
  /\ loc' = [quotient |-> << >>, remainder |-> << >>, i |-> 31]
  /\ ret' = << >>
  /\ lastMod' = IF lastMod.valid /\ lastMod.dividend = dividend
                   /\ lastMod.divisor = divisor
                THEN lastMod ELSE NoMod
  /\ UNCHANGED lastRsqrt

Call_udiv(dividend, divisor) ==
  /\ pc = "idle"
  /\ fn' = "udiv"
  /\ arg' = <<dividend, divisor>>
  /\ IF divisor = << >>
     THEN pc' = "done" /\ loc' = << >>
     ELSE pc' = "udiv"
          /\ loc' = [quotient |-> << >>, remainder |-> << >>, i |-> 31]
  /\ ret' = << >>
  /\ lastMod' = IF lastMod.valid /\ lastMod.dividend = dividend
                   /\ lastMod.divisor = divisor
                THEN lastMod ELSE NoMod
  /\ UNCHANGED lastRsqrt

udiv_iter ==
  /\ pc = "udiv"
  /\ loc.i >= 0
  /\ loc' = udiv_body(loc, arg[1], arg[2])
  /\ UNCHANGED <<pc, fn, arg, ret, lastMod, lastRsqrt>>

udiv_return ==
  /\ pc = "udiv"
  /\ loc.i < 0
  /\ pc' = "done"
  /\ ret' = loc.quotient
  /\ UNCHANGED <<fn, arg, loc, lastMod, lastRsqrt>>

Call_umod(dividend, divisor) ==
  /\ pc = "idle"
  /\ fn' = "umod"
  /\ arg' = <<dividend, divisor>>
  /\ IF divisor = << >>
     THEN pc' = "done" /\ loc' = << >>
     ELSE pc' = "umod" /\ loc' = [remainder |-> << >>, i |-> 31]
  /\ ret' = << >>
  /\ lastMod' = NoMod
  /\ UNCHANGED lastRsqrt

umod_iter ==
  /\ pc = "umod"
  /\ loc.i >= 0
  /\ loc' = umod_body(loc, arg[1], arg[2])
  /\ UNCHANGED <<pc, fn, arg, ret, lastMod, lastRsqrt>>

umod_return ==
  /\ pc = "umod"
  /\ loc.i < 0
  /\ pc' = "done"
  /\ ret' = loc.remainder
  /\ UNCHANGED <<fn, arg, loc, lastMod, lastRsqrt>>

\* rsqrt without the test for UINT32_MAX.
Call_rsqrt_one_sentinel(x) ==
  /\ pc = "idle"
  /\ fn' = "rsqrt"
  /\ arg' = <<x>>
  /\ IF x = << >>
     THEN pc' = "done" /\ ret' = UINT32_MAX /\ loc' = << >>
     ELSE pc' = "rsqrt_lookup" /\ ret' = << >> /\ loc' = [exp |-> rsqrt_exp(x)]
  /\ lastMod' = NoMod
  /\ UNCHANGED lastRsqrt

\* rsqrt, lines 262-266: the two sentinels, then the exponent.
Call_rsqrt(x) ==
  /\ pc = "idle"
  /\ fn' = "rsqrt"
  /\ arg' = <<x>>
  /\ IF x = << >>
     THEN pc' = "done" /\ ret' = UINT32_MAX /\ loc' = << >>
     ELSE IF x = UINT32_MAX
     THEN pc' = "done" /\ ret' = N(1) /\ loc' = << >>
     ELSE pc' = "rsqrt_lookup" /\ ret' = << >> /\ loc' = [exp |-> rsqrt_exp(x)]
  /\ lastMod' = NoMod
  /\ UNCHANGED lastRsqrt

\* lines 269-273: the two table entries and the fraction.
rsqrt_lookup ==
  /\ pc = "rsqrt_lookup"
  /\ pc' = "rsqrt_interp"
  /\ loc' = [exp      |-> loc.exp,
             y_base   |-> rsqrt_y_base(loc.exp),
             y_next   |-> rsqrt_y_next(loc.exp),
             fraction |-> rsqrt_fraction(arg[1], loc.exp)]
  /\ UNCHANGED <<fn, arg, ret, lastMod, lastRsqrt>>

\* line 276: the interpolated seed.
rsqrt_seed ==
  /\ pc = "rsqrt_interp"
  /\ pc' = "newton_y2"
  /\ loc' = [exp      |-> loc.exp,
             y_base   |-> loc.y_base,
             y_next   |-> loc.y_next,
             fraction |-> loc.fraction,
             y        |-> rsqrt_interp(loc.y_base, loc.y_next, loc.fraction)]
  /\ UNCHANGED <<fn, arg, ret, lastMod, lastRsqrt>>

\* line 280 calls newton_step_q16_inline; lines 208-209: y2 = y * y.
newton_y2 ==
  /\ pc = "newton_y2"
  /\ pc' = "newton_termA"
  /\ LET m == mul32x32(loc.y, loc.y)
     IN  loc' = [y2_hi |-> m.hi, y2_lo |-> m.lo] @@ loc
  /\ UNCHANGED <<fn, arg, ret, lastMod, lastRsqrt>>

\* lines 214-216: termA = (x * y2_hi) << 16.
newton_termA_step ==
  /\ pc = "newton_termA"
  /\ pc' = "newton_termB"
  /\ loc' = [termA |-> newton_termA(mul32x32(arg[1], loc.y2_hi))] @@ loc
  /\ UNCHANGED <<fn, arg, ret, lastMod, lastRsqrt>>

\* lines 221-231: termB = (x * y2_lo) >> 16, xy2 and term.
newton_termB_step ==
  /\ pc = "newton_termB"
  /\ pc' = "newton_result"
  /\ \E termB \in {newton_termB(mul32x32(arg[1], loc.y2_lo))} :
       \E xy2 \in {newton_xy2(loc.termA, termB)} :
         loc' = [termB |-> termB, xy2 |-> xy2, term |-> newton_term(xy2)]
                  @@ loc
  /\ UNCHANGED <<fn, arg, ret, lastMod, lastRsqrt>>

\* lines 234-238 and 282: y * term, the rounding, the return.
newton_result_step ==
  /\ pc = "newton_result"
  /\ pc' = "done"
  /\ ret' = newton_result(mul32x32(loc.y, loc.term))
  /\ UNCHANGED <<fn, arg, loc, lastMod, lastRsqrt>>

\* The caller takes the result; the next call may start.
Return ==
  /\ pc = "done"
  /\ pc' = "idle"
  /\ fn' = "none"
  /\ arg' = << >>
  /\ loc' = << >>
  /\ ret' = << >>
  /\ lastMod' = IF fn = "umod"
                THEN [valid |-> TRUE, dividend |-> arg[1], divisor |-> arg[2],
                      r |-> ret]
                ELSE NoMod
  /\ lastRsqrt' = IF fn = "rsqrt"
                  THEN [valid |-> TRUE, x |-> arg[1], y |-> ret]
                  ELSE lastRsqrt

\* clz, mul32x32, umul and __mulsi3
NextBits ==
  \/ \E x \in ClzInputs : Call_clz(x)
  \/ \E a \in Operands, b \in Operands : Call_mul32x32(a, b)
  \/ \E a \in Operands, b \in Operands : Call_umul(a, b)
  \/ \E a \in Operands, b \in Operands : Call_mulsi3(a, b)
  \/ umul_iter
  \/ umul_return
  \/ Return

SpecBits == Init /\ [][NextBits]_vars

\* udiv and umod
NextDiv ==
  \/ \E a \in Dividends, b \in Divisors : Call_udiv(a, b)
  \/ udiv_iter
  \/ udiv_return
  \/ \E a \in Dividends, b \in Divisors : Call_umod(a, b)
  \/ umod_iter
  \/ umod_return
  \/ Return

SpecDiv == Init /\ [][NextDiv]_vars

\* rsqrt
NextRsqrt ==
  \/ \E x \in RsqrtInputs : Call_rsqrt(x)
  \/ rsqrt_lookup
  \/ rsqrt_seed
  \/ newton_y2
  \/ newton_termA_step
  \/ newton_termB_step
  \/ newton_result_step
  \/ Return

SpecRsqrt == Init /\ [][NextRsqrt]_vars

(***************************************************************************)
(* Properties.                                                             *)
(***************************************************************************)

\* C1: when mul32x32(a, b) has returned, hi * 2^32 + lo is the exact product
\* a * b.
C1_WideProductExact ==
  (pc = "done" /\ fn = "mul32x32") =>
    NAdd(NShl(ret.hi, 32), ret.lo) = NMul(arg[1], arg[2])

\* mul32x32(0xFFFFFFFF, 0xFFFFFFFF) has returned 0xFFFFFFFE : 00000001; the
\* middle column carries into the high word.
C1_Witness ==
  /\ pc = "done" /\ fn = "mul32x32"
  /\ arg = <<UINT32_MAX, UINT32_MAX>>
  /\ ret = [hi |-> <<254, 255, 255, 255>>, lo |-> <<1>>]

\* C7: the loop of umul runs at most 32 times (after 32 iterations b is 0),
\* and umul and __mulsi3 return (a * b) mod 2^32.
C7_UmulWraparound ==
  /\ (pc = "umul") => (loc.n <= 32 /\ (loc.n = 32 => loc.b = << >>))
  /\ (pc = "done" /\ fn \in {"umul", "__mulsi3"}) =>
       (loc.n <= 32 /\ ret = U32(NMul(arg[1], arg[2])))

\* __mulsi3 has returned after 32 iterations with a product that does not
\* fit 32 bits.
C7_Witness ==
  /\ pc = "done" /\ fn = "__mulsi3"
  /\ loc.n = 32
  /\ NLeq(Pow2(32), NMul(arg[1], arg[2]))
  /\ ret # << >>

\* C8: clz(0) = 32; for x # 0, clz(x) is in 0..31 and bit 31 - clz(x) is the
\* highest set bit of x: 2^(31 - clz) <= x < 2^(32 - clz).
C8_ClzCountsLeadingZeros ==
  (pc = "done" /\ fn = "clz") =>
    IF arg[1] = << >> THEN ret = N(32)
    ELSE /\ NLeq(ret, N(31))
         /\ NLeq(Pow2(31 - ToInt(ret)), arg[1])
         /\ NLess(arg[1], Pow2(32 - ToInt(ret)))
         /\ (arg[1] = N(1) => ret = N(31))
         /\ (arg[1] = UINT32_MAX => ret = N(0))

\* clz(2^12 + 1) has returned 19: every one of the five stages decides.
C8_Witness ==
  pc = "done" /\ fn = "clz" /\ arg = <<N(4097)>> /\ ret = N(19)

\* C6: for a nonzero divisor b, udiv(a, b) * b + umod(a, b) = a and
\* umod(a, b) < b (so udiv is floor(a / b) and umod is a mod b); udiv's own
\* remainder agrees with umod; and at the head of either loop the running
\* remainder is below 2^31, so the shift by one drops no set bit.
C6_DivModIdentity ==
  /\ (pc = "done" /\ fn = "udiv" /\ arg[2] # << >>) =>
       /\ NAdd(NMul(ret, arg[2]), loc.remainder) = arg[1]
       /\ NLess(loc.remainder, arg[2])
       /\ lastMod.valid =>
            /\ NAdd(NMul(ret, arg[2]), lastMod.r) = arg[1]
            /\ NLess(lastMod.r, arg[2])
  /\ (pc = "done" /\ fn = "umod" /\ arg[2] # << >>) => NLess(ret, arg[2])
  /\ (pc \in {"udiv", "umod"} /\ loc.i >= 0) => NLess(loc.remainder, Pow2(31))

\* udiv(0xFFFFFFFF, 0x80000001) has returned 1 right after umod of the same
\* arguments returned 0x7FFFFFFE: a divisor above 2^31.
C6_Witness ==
  /\ pc = "done" /\ fn = "udiv"
  /\ arg = <<UINT32_MAX, Word(32768, 1)>>
  /\ ret = N(1)
  /\ lastMod.valid /\ lastMod.r = N(2147483646)

\* C9: a call of udiv or umod with divisor 0 returns 0 at once: it goes from
\* the call straight to the return, and neither loop ever runs with a zero
\* divisor.
C9_DivideByZeroReturnsZero ==
  /\ (pc \in {"udiv", "umod"}) => arg[2] # << >>
  /\ (pc = "done" /\ fn \in {"udiv", "umod"} /\ arg[2] = << >>) =>
       ret = N(0)

\* udiv(0xFFFFFFFF, 0) has returned 0.
C9_Witness ==
  /\ pc = "done" /\ fn = "udiv"
  /\ arg = <<UINT32_MAX, N(0)>>
  /\ ret = N(0)

\* An rsqrt input that is neither sentinel: 0 < x < 0xFFFFFFFF.
Ordinary(x) == x # << >> /\ x # UINT32_MAX

\* An rsqrt call with an ordinary input has returned.
RsqrtReturned == pc = "done" /\ fn = "rsqrt" /\ Ordinary(arg[1])

\* Two rsqrt calls with ordinary inputs have returned, one after the other.
RsqrtPair == RsqrtReturned /\ lastRsqrt.valid /\ Ordinary(lastRsqrt.x)

\* C2, as stated: for ordinary x1 < x2, rsqrt(x1) >= rsqrt(x2).
C2_Monotone ==
  RsqrtPair =>
    /\ NLess(lastRsqrt.x, arg[1]) => NLeq(ret, lastRsqrt.y)
    /\ NLess(arg[1], lastRsqrt.x) => NLeq(lastRsqrt.y, ret)

\* C2, amended: for ordinary x1 < x2, rsqrt(x2) exceeds rsqrt(x1) by at most
\* one unit: rsqrt(x1) + 1 >= rsqrt(x2).
C2_MonotoneWithinOneUnit ==
  RsqrtPair =>
    /\ NLess(lastRsqrt.x, arg[1]) => NLeq(ret, NAdd(lastRsqrt.y, N(1)))
    /\ NLess(arg[1], lastRsqrt.x) => NLeq(lastRsqrt.y, NAdd(ret, N(1)))

\* rsqrt(5352) returned 893 and then rsqrt(5353) returned 894.
C2_Witness ==
  /\ RsqrtPair
  /\ lastRsqrt.x = N(5352) /\ lastRsqrt.y = N(893)
  /\ arg[1] = N(5353) /\ ret = N(894)

\* |y^2 * x - 2^32|
SquareError(x, y) ==
  LET p == NMul(NMul(y, y), x)
  IN  IF NLeq(Pow2(32), p) THEN NSub(p, Pow2(32)) ELSE NSub(Pow2(32), p)

\* y is within one unit of 2^16 / sqrt(x): (y-1)^2 * x <= 2^32 <= (y+1)^2 * x
WithinOneUnit(x, y) ==
  /\ y # << >>
  /\ NLeq(NMul(NMul(NSub(y, N(1)), NSub(y, N(1))), x), Pow2(32))
  /\ NLeq(Pow2(32), NMul(NMul(NAdd(y, N(1)), NAdd(y, N(1))), x))

\* C3, as stated: for every ordinary x of RSQRT_INPUTS, y = rsqrt(x) has
\* |y^2 * x - 2^32| <= 2^18 (relative error 2^-14).
C3_AccuracyTwoToMinus14 ==
  (RsqrtReturned /\ arg[1] \in SampleInputs) =>
    NLeq(SquareError(arg[1], ret), Pow2(18))

\* C3, amended: for every ordinary x of RSQRT_INPUTS, y = rsqrt(x) has
\* |y^2 * x - 2^32| <= 2^25 (relative error 2^-7), or y is within one unit of
\* 2^16 / sqrt(x).
C3_AccuracyTwoToMinus7 ==
  (RsqrtReturned /\ arg[1] \in SampleInputs) =>
    \/ NLeq(SquareError(arg[1], ret), Pow2(25))
    \/ WithinOneUnit(arg[1], ret)

\* rsqrt(3) has returned 37719 (2^16 / sqrt(3) is 37837.2): the error of
\* y^2 * x is 26798413, above 2^18 and below 2^25.
C3_Witness ==
  /\ RsqrtReturned
  /\ arg[1] = N(3) /\ ret = N(37719)
  /\ SquareError(arg[1], ret) = N(26798413)

\* C4: rsqrt(0) returns 0xFFFFFFFF and rsqrt(0xFFFFFFFF) returns 1 straight
\* from the call: the table lookup, the interpolation and the Newton step
\* never run for them.  For every other input the exponent is a table index
\* (0..31) and the call returns a 32-bit value.
C4_SentinelsAndTotality ==
  /\ (pc = "done" /\ fn = "rsqrt" /\ arg[1] = N(0)) =>
       (ret = UINT32_MAX /\ loc = << >>)
  /\ (pc = "done" /\ fn = "rsqrt" /\ arg[1] = UINT32_MAX) =>
       (ret = N(1) /\ loc = << >>)
  /\ (pc \in {"rsqrt_lookup", "rsqrt_interp", "newton_y2", "newton_termA",
              "newton_termB", "newton_result"}) =>
       (Ordinary(arg[1]) /\ NLeq(loc.exp, N(31)))
  /\ (pc = "done" /\ fn = "rsqrt") => Len(ret) <= 4

\* rsqrt(0xFFFFFFFF) has returned 1.
C4_Witness ==
  pc = "done" /\ fn = "rsqrt" /\ arg[1] = UINT32_MAX /\ ret = N(1)

\* C5: rsqrt(1), rsqrt(4), rsqrt(16) and rsqrt(256) are within 4 of 65536,
\* 32768, 16384 and 4096.
Near(y, v) == NLeq(N(v - 4), y) /\ NLeq(y, N(v + 4))

C5_EvenPowersOfTwo ==
  RsqrtReturned =>
    /\ arg[1] = N(1) => Near(ret, 65536)
    /\ arg[1] = N(4) => Near(ret, 32768)
    /\ arg[1] = N(16) => Near(ret, 16384)
    /\ arg[1] = N(256) => Near(ret, 4096)

\* rsqrt(256) has returned 4096.
C5_Witness == RsqrtReturned /\ arg[1] = N(256) /\ ret = N(4096)

\* C10: for an ordinary x the fraction is the 16 bits of x below its highest
\* set bit, the seed is table[e] - floor((table[e] - next) * fraction / 2^16),
\* and the Newton step loses nothing to wraparound: xy2 is
\* floor(x * y^2 / 2^16), at most 3 * 2^16, term is 3 * 2^16 - xy2, and the
\* value returned is floor((y * term + 2^16) / 2^17).
C10_NewtonStepExact ==
  RsqrtReturned =>
    LET x == arg[1]
        y == loc.y
        e == 31 - ToInt(clz(x))
    IN  /\ loc.exp = N(e)
        /\ loc.fraction = NShr(NShl(NSub(x, Pow2(e)), 16), e)
        /\ NLess(loc.fraction, N(65536))
        /\ loc.y_base = N(rsqrt_table[e + 1])
        /\ loc.y_next = N(IF e = 31 THEN 1 ELSE rsqrt_table[e + 2])
        /\ y = NSub(loc.y_base,
                    NShr(NMul(NSub(loc.y_base, loc.y_next), loc.fraction), 16))
        /\ loc.xy2 = NShr(NMul(x, NMul(y, y)), 16)
        /\ NLeq(loc.xy2, N(3 * 65536))
        /\ loc.term = NSub(N(3 * 65536), loc.xy2)
        /\ ret = NShr(NAdd(NMul(y, loc.term), N(65536)), 17)

\* rsqrt(0xFFFFFFFE) has returned 1 from the seed 1 of the last bucket
\* (e = 31, next = 1), with xy2 = 65535.
C10_Witness ==
  /\ RsqrtReturned
  /\ arg[1] = Word(65535, 65534)
  /\ loc.exp = N(31) /\ loc.y = N(1) /\ loc.xy2 = N(65535)
  /\ ret = N(1)

====
